---- MODULE Spec2Model ----
(***************************************************************************)
(* SkyCast flight-delay notebook (src/flight-delay.ipynb): the loading,    *)
(* cleaning, feature, integrity, delay-level and outlier-capping cells.    *)
(*                                                                         *)
(* Three specifications share this module:                                 *)
(*   Spec     the notebook kernel running the cells of sections 1-4 in     *)
(*            order on a small flights table;                              *)
(*   SpecFn   the two scalar helpers sched_hour and delay_type applied to  *)
(*            one integer argument;                                        *)
(*   SpecCap  the outlier cell of section 12 run on a delay column, raw or *)
(*            already capped, and run a second time.                       *)
(***************************************************************************)
EXTENDS Integers, Sequences, FiniteSets, TLC

VARIABLES
  heap,      \* Spec: the DataFrame objects created so far, in creation order
  flights,   \* Spec: index in heap of the object the name `flights` is bound to
  pc,        \* Spec: the next cell to run
  raised,    \* Spec: the exceptions raised by the cells run so far
  printed,   \* Spec: what the integrity cell printed, <<>> before it runs
  arg,       \* SpecFn: the argument handed to a helper is the float arg/den
  den,       \* SpecFn: 1 for a whole number, 100 for hundredths
  fn,        \* SpecFn: which helper was applied, "none" before
  res,       \* SpecFn: what the helper returned
  delays,    \* SpecCap: the DEPARTURE_DELAY column
  capped,    \* SpecCap: the DEPARTURE_DELAY_CAPPED column
  kind,      \* SpecCap: "raw" or "capped", what the DEPARTURE_DELAY column holds
  cpc        \* SpecCap: "raw" before the outlier cell ran, then "once", "twice"

vars == <<heap, flights, pc, raised, printed, arg, den, fn, res,
          delays, capped, kind, cpc>>

(***************************************************************************)
(* Bounds of the model.                                                    *)
(***************************************************************************)
\* rows of flights.csv in Spec
MaxRows == 3
\* SpecFn: the helpers' argument runs over -MinArg..MaxArg
MaxArg == 10000
MinArg == 100
\* rows of the delay column in SpecCap; a row can only exceed
\* mean + 3*std in a column of at least 11 rows
MaxCapRows == 11

(***************************************************************************)
(* Cell values.  A cell is a rational num/den (den = 1 for the integers of *)
(* the data file, den = 2 for a median of two integers), a string, or the  *)
(* missing value NaN.  One record shape for all three keeps cells          *)
(* comparable.                                                             *)
(***************************************************************************)
NaN == [num |-> 0, den |-> 0, str |-> ""]
Num(n) == [num |-> n, den |-> 1, str |-> ""]
Str(s) == [num |-> 0, den |-> 0, str |-> s]
Bool(b) == [num |-> IF b THEN 1 ELSE 0, den |-> 1, str |-> "bool"]

isnull(v) == v = NaN

\* a < b on rational cells
Lt(a, b) == a.num * b.den < b.num * a.den

RECURSIVE Gcd(_, _)
Gcd(a, b) == IF b = 0 THEN a ELSE Gcd(b, a % b)

Abs(n) == IF n < 0 THEN 0 - n ELSE n

\* (a + b) / 2 in lowest terms
Mean2(a, b) ==
  LET n == a.num * b.den + b.num * a.den
      d == 2 * a.den * b.den
      g == Gcd(Abs(n), d)
  IN  [num |-> n \div g, den |-> d \div g, str |-> ""]

\* int(x) of a float cell: truncation toward zero
IntOf(v) ==
  IF v.num >= 0 THEN v.num \div v.den ELSE 0 - ((0 - v.num) \div v.den)

(***************************************************************************)
(* The flights table as read from flights.csv.                             *)
(***************************************************************************)
Years == {2015}
Months == {1, 2}
Days == {3}
Origins == {NaN, Str("JFK")}
DepDelays == {NaN, Num(-2)}
Distances == {NaN, Num(-1), Num(300)}

RowDomain ==
  { [YEAR |-> Num(y), MONTH |-> Num(m), DAY |-> Num(d),
     AIRLINE |-> Str("AA"), ORIGIN_AIRPORT |-> o,
     DESTINATION_AIRPORT |-> Str("LAX"),
     SCHEDULED_DEPARTURE |-> Num(930), DEPARTURE_DELAY |-> dd,
     DISTANCE |-> di] :
       y \in Years, m \in Months, d \in Days, o \in Origins,
       dd \in DepDelays, di \in Distances }

RawColumns ==
  {"YEAR", "MONTH", "DAY", "AIRLINE", "ORIGIN_AIRPORT", "DESTINATION_AIRPORT",
   "SCHEDULED_DEPARTURE", "DEPARTURE_DELAY", "DISTANCE"}

\* the column values of a table, in row order
Column(t, c) == [i \in 1..Len(t.rows) |-> t.rows[i].v[c]]

\* read_csv's dtype inference: strings make an object column, a missing
\* value makes a float column, integers alone an int column
InferDtype(vals) ==
  IF \E i \in 1..Len(vals) : vals[i].str # "" THEN "object"
  ELSE IF \E i \in 1..Len(vals) : isnull(vals[i]) THEN "float64"
  ELSE IF Len(vals) = 0 THEN "object"
  ELSE "int64"

\* pd.read_csv: rows labelled 0..n-1 by the default RangeIndex
read_csv(recs) ==
  LET rows == [i \in 1..Len(recs) |-> [idx |-> i - 1, v |-> recs[i]]]
  IN  [dtypes |-> [c \in RawColumns |->
                     InferDtype([i \in 1..Len(recs) |-> recs[i][c]])],
       rows |-> rows]

Files == UNION { [1..n -> RowDomain] : n \in 0..MaxRows }

(***************************************************************************)
(* Section 2: the cleaning cell.                                           *)
(***************************************************************************)
variables_to_remove ==
  {"TAXI_OUT", "TAXI_IN", "WHEELS_ON", "WHEELS_OFF", "YEAR",
   "MONTH", "DAY", "DAY_OF_WEEK", "DATE", "AIR_SYSTEM_DELAY",
   "SECURITY_DELAY", "AIRLINE_DELAY", "LATE_AIRCRAFT_DELAY",
   "WEATHER_DELAY", "DIVERTED", "CANCELLED", "CANCELLATION_REASON",
   "FLIGHT_NUMBER", "TAIL_NUMBER", "AIR_TIME"}

essential ==
  {"AIRLINE", "ORIGIN_AIRPORT", "DESTINATION_AIRPORT",
   "SCHEDULED_DEPARTURE", "DEPARTURE_DELAY"}

Cols(t) == DOMAIN t.dtypes

\* flights[flights['MONTH'] == 1]: a new table of the matching rows, labels kept
MonthFilter(t) ==
  [t EXCEPT !.rows = SelectSeq(t.rows, LAMBDA r : r.v["MONTH"] = Num(1))]

\* pd.to_datetime(flights[['YEAR','MONTH','DAY']]): the date assembled as
\* year*10000 + month*100 + day; a missing part gives a missing date
to_datetime(r) ==
  IF isnull(r.v["YEAR"]) \/ isnull(r.v["MONTH"]) \/ isnull(r.v["DAY"])
  THEN NaN
  ELSE Num(r.v["YEAR"].num * 10000 + r.v["MONTH"].num * 100 + r.v["DAY"].num)

\* flights[c] = vals: the column is added to (or replaced in) the table,
\* vals[i] going to the i-th row
SetColumn(t, c, dtype, vals) ==
  [dtypes |-> [k \in Cols(t) \cup {c} |-> IF k = c THEN dtype ELSE t.dtypes[k]],
   rows |-> [i \in 1..Len(t.rows) |->
               [idx |-> t.rows[i].idx,
                v |-> [k \in Cols(t) \cup {c} |->
                         IF k = c THEN vals[i] ELSE t.rows[i].v[k]]]]]

\* flights.drop(labels, axis=1, errors='ignore'): absent labels are skipped
DropColumns(t, labels) ==
  [dtypes |-> [k \in Cols(t) \ labels |-> t.dtypes[k]],
   rows |-> [i \in 1..Len(t.rows) |->
               [idx |-> t.rows[i].idx,
                v |-> [k \in Cols(t) \ labels |-> t.rows[i].v[k]]]]]

\* dropna with how='all': a row goes only when every subset column is missing
dropna_how_all(t, subset) ==
  [t EXCEPT !.rows =
     SelectSeq(t.rows, LAMBDA r : \E c \in subset : ~isnull(r.v[c]))]

\* flights.dropna(subset=...): rows with a missing value in a subset column go
dropna(t, subset) ==
  [t EXCEPT !.rows =
     SelectSeq(t.rows, LAMBDA r : \A c \in subset : ~isnull(r.v[c]))]

\* the non-missing values of a column, in row order
NonNull(vals) == SelectSeq(vals, LAMBDA x : ~isnull(x))

\* s with x inserted before the first element greater than x (s sorted)
RECURSIVE Insert(_, _)
Insert(s, x) ==
  IF s = <<>> THEN <<x>>
  ELSE IF Lt(x, Head(s)) THEN <<x>> \o s
  ELSE <<Head(s)>> \o Insert(Tail(s), x)

RECURSIVE Sorted(_)
Sorted(s) == IF s = <<>> THEN <<>> ELSE Insert(Sorted(Tail(s)), Head(s))

\* Series.median(): the middle of the sorted non-missing values, the mean of
\* the two middle ones for an even count, NaN when there is none
median(vals) ==
  LET s == Sorted(NonNull(vals))
      n == Len(s)
  IN  IF n = 0 THEN NaN
      ELSE IF n % 2 = 1 THEN s[(n + 1) \div 2]
      ELSE Mean2(s[n \div 2], s[n \div 2 + 1])

\* Series.fillna(value): missing values replaced; fillna(NaN) changes nothing
fillna(v, value) == IF isnull(v) THEN value ELSE v

\* select_dtypes(include=[np.number])
NumericCols(t) == {c \in Cols(t) : t.dtypes[c] \in {"int64", "float64"}}

\* flights[col] = flights[col].fillna(flights[col].median())
FillColumn(t, c) ==
  LET m == median(Column(t, c))
  IN  SetColumn(t, c, t.dtypes[c],
                [i \in 1..Len(t.rows) |-> fillna(t.rows[i].v[c], m)])

\* the loop of lines 96-97 over a set of columns; each column is filled from
\* its own values only, so the order of the columns does not matter
RECURSIVE FillAll(_, _)
FillAll(t, cs) ==
  IF cs = {} THEN t
  ELSE LET c == CHOOSE x \in cs : TRUE
       IN  FillAll(FillColumn(t, c), cs \ {c})

\* the cleaning cell with the median fill moved before the row drop
Cleaned_fill_before_drop(t) ==
  LET filtered == MonthFilter(t)
      dated == SetColumn(filtered, "DATE", "datetime64",
                 [i \in 1..Len(filtered.rows) |-> to_datetime(filtered.rows[i])])
      pruned == DropColumns(dated, variables_to_remove)
      filled == FillAll(pruned, NumericCols(pruned))
  IN  dropna(filled, essential)

\* the table the cleaning cell leaves bound to `flights`
Cleaned(t) ==
  LET filtered == MonthFilter(t)
      dated == SetColumn(filtered, "DATE", "datetime64",
                 [i \in 1..Len(filtered.rows) |-> to_datetime(filtered.rows[i])])
      pruned == DropColumns(dated, variables_to_remove)
      kept == dropna(pruned, essential)
  IN  FillAll(kept, NumericCols(kept))

CellClean ==
  /\ pc = "clean"
  /\ heap' = Append(heap, Cleaned(heap[flights]))
  /\ flights' = Len(heap) + 1
  /\ pc' = "feature"
  /\ UNCHANGED <<raised, printed, arg, den, fn, res, delays, capped, kind, cpc>>

(***************************************************************************)
(* Section 3: the feature cell.                                            *)
(***************************************************************************)
DigitChar == <<"0", "1", "2", "3", "4", "5", "6", "7", "8", "9">>

\* the decimal digits of a natural number
RECURSIVE Digits(_)
Digits(n) ==
  IF n < 10 THEN <<DigitChar[n + 1]>>
  ELSE Digits(n \div 10) \o <<DigitChar[(n % 10) + 1]>>

\* str(n) of a Python int, one character per element
str(n) == IF n < 0 THEN <<"-">> \o Digits(0 - n) ELSE Digits(n)

\* str.zfill(width): zeros on the left up to width, after a leading sign
RECURSIVE zfill(_, _)
zfill(s, width) ==
  IF Len(s) >= width THEN s
  ELSE IF s # <<>> /\ Head(s) \in {"-", "+"}
       THEN <<Head(s)>> \o zfill(Tail(s), width - 1)
  ELSE zfill(<<"0">> \o s, width)

\* s[:k]
Prefix(s, k) == SubSeq(s, 1, IF Len(s) < k THEN Len(s) ELSE k)

IsDigit(ch) == \E d \in 1..10 : DigitChar[d] = ch

DigitVal(ch) == (CHOOSE d \in 1..10 : DigitChar[d] = ch) - 1

RECURSIVE DigitsVal(_)
DigitsVal(s) ==
  IF s = <<>> THEN 0
  ELSE DigitsVal(SubSeq(s, 1, Len(s) - 1)) * 10 + DigitVal(s[Len(s)])

\* what a call returns: a value, or the exception it raises
Return(n) == [exc |-> "", val |-> n]
Raise(e) == [exc |-> e, val |-> 0]

\* int(s) of a Python str: an optional sign and at least one digit
int(s) ==
  LET signed == s # <<>> /\ Head(s) \in {"-", "+"}
      body == IF signed THEN Tail(s) ELSE s
  IN  IF body = <<>> \/ \E i \in 1..Len(body) : ~IsDigit(body[i])
      THEN Raise("ValueError")
      ELSE IF signed /\ Head(s) = "-" THEN Return(0 - DigitsVal(body))
      ELSE Return(DigitsVal(body))

\* sched_hour keeping the first two characters of the unpadded string
sched_hour_no_zfill(x) ==
  IF isnull(x) THEN Raise("ValueError")
  ELSE int(Prefix(str(IntOf(x)), 2))

\* def sched_hour(x): x = str(int(x)).zfill(4); return int(x[:2])
\* int(x) of a missing value raises ValueError
sched_hour(x) ==
  IF isnull(x) THEN Raise("ValueError")
  ELSE int(Prefix(zfill(str(IntOf(x)), 4), 2))

\* Timestamp.dayofweek of the date yyyymmdd, Monday = 0 (Sakamoto's rule)
MonthShift == <<0, 3, 2, 5, 0, 3, 5, 1, 4, 6, 2, 4>>

dayofweek(date) ==
  LET y0 == date \div 10000
      m == (date \div 100) % 100
      d == date % 100
      y == IF m < 3 THEN y0 - 1 ELSE y0
      sunday0 == (y + y \div 4 - y \div 100 + y \div 400 + MonthShift[m] + d) % 7
  IN  (sunday0 + 6) % 7

\* pd.to_datetime(flights['DATE']).dt.dayofweek >= 5; a missing date is False
is_weekend(date) == IF isnull(date) THEN FALSE ELSE dayofweek(date.num) >= 5

\* Series.apply(sched_hour) raises what sched_hour raises on any of its rows
ApplyRaises(t) ==
  \E i \in 1..Len(t.rows) : sched_hour(t.rows[i].v["SCHEDULED_DEPARTURE"]).exc # ""

\* the dtype of Series.apply's result: the int64 of the returned hours, and
\* the dtype of the Series itself when it is empty (apply then returns an
\* empty Series of the same dtype without calling the function)
ApplyDtype(t) ==
  IF Len(t.rows) = 0 THEN t.dtypes["SCHEDULED_DEPARTURE"] ELSE "int64"

\* line 127: flights['SCHED_DEP_HOUR'] = flights['SCHEDULED_DEPARTURE'].apply(sched_hour)
\* when no row raises
WithSchedHour(t) ==
  SetColumn(t, "SCHED_DEP_HOUR", ApplyDtype(t),
            [i \in 1..Len(t.rows) |->
               Num(sched_hour(t.rows[i].v["SCHEDULED_DEPARTURE"]).val)])

\* line 128: flights['IS_WEEKEND'] = pd.to_datetime(flights['DATE']).dt.dayofweek >= 5
WithIsWeekend(t) ==
  SetColumn(t, "IS_WEEKEND", "bool",
            [i \in 1..Len(t.rows) |-> Bool(is_weekend(t.rows[i].v["DATE"]))])

\* the columns line 128 reads
FeatureReads == {"SCHEDULED_DEPARTURE", "DATE"}

\* the feature cell: both lines assign into the table bound to `flights`.
\* When sched_hour raises on a row, line 127 assigns nothing and the cell
\* stops there.  Otherwise line 128 raises KeyError when the table has no
\* DATE column, after line 127 has already added SCHED_DEP_HOUR
CellFeature ==
  /\ pc = "feature"
  /\ IF ApplyRaises(heap[flights])
     THEN /\ heap' = heap
          /\ raised' = raised \cup {"ValueError"}
     ELSE LET t1 == WithSchedHour(heap[flights])
          IN  IF "DATE" \in Cols(t1)
              THEN /\ heap' = [heap EXCEPT ![flights] = WithIsWeekend(t1)]
                   /\ raised' = raised
              ELSE /\ heap' = [heap EXCEPT ![flights] = t1]
                   /\ raised' = raised \cup {"KeyError: 'DATE'"}
  /\ pc' = "integrity"
  /\ UNCHANGED <<flights, printed, arg, den, fn, res, delays, capped, kind, cpc>>

(***************************************************************************)
(* Section 4: the integrity cell.                                          *)
(***************************************************************************)
\* DataFrame.drop_duplicates(): a new table keeping the first row of each
\* group of rows equal in every column (labels are not compared)
drop_duplicates(t) ==
  LET first(i) == \A j \in 1..(i - 1) : t.rows[j].v # t.rows[i].v
      keep == {i \in 1..Len(t.rows) : first(i)}
      nth[k \in 0..Len(t.rows)] ==
        IF k = 0 THEN <<>>
        ELSE IF k \in keep THEN Append(nth[k - 1], t.rows[k]) ELSE nth[k - 1]
  IN  [t EXCEPT !.rows = nth[Len(t.rows)]]

\* (flights[c] < 0).sum(): a missing value compares False
NegativeCount(t, c) ==
  Cardinality({i \in 1..Len(t.rows) :
                 ~isnull(t.rows[i].v[c]) /\ t.rows[i].v[c].num < 0})

CellIntegrity ==
  /\ pc = "integrity"
  /\ LET t == drop_duplicates(heap[flights])
     IN  /\ heap' = Append(heap, t)
         /\ printed' = <<NegativeCount(t, "DISTANCE"),
                         NegativeCount(t, "DEPARTURE_DELAY")>>
  /\ flights' = Len(heap) + 1
  /\ pc' = "done"
  /\ UNCHANGED <<raised, arg, den, fn, res, delays, capped, kind, cpc>>

(***************************************************************************)
(* Spec: the kernel after the loading cell, then the cells in order.       *)
(***************************************************************************)
Init ==
  /\ \E f \in Files : heap = <<read_csv(f)>>
  /\ flights = 1
  /\ pc = "clean"
  /\ raised = {}
  /\ printed = <<>>
  /\ arg = 0
  /\ den = 1
  /\ fn = "none"
  /\ res = Return(0)
  /\ delays = [d |-> 0, m |-> 1, cells |-> <<>>]
  /\ capped = [d |-> 0, m |-> 1, cells |-> <<>>]
  /\ kind = "none"
  /\ cpc = "idle"

Next == CellClean \/ CellFeature \/ CellIntegrity

Spec == Init /\ [][Next]_vars

(***************************************************************************)
(* Properties of Spec.                                                     *)
(***************************************************************************)
\* the table read from flights.csv, and the row of it carrying a label
Loaded == heap[1]
LoadedRow(idx) == Loaded.rows[idx + 1]

\* the rows of the loaded table that are in scope (January) and have every
\* essential field
Survives(r) ==
  /\ r.v["MONTH"] = Num(1)
  /\ \A c \in essential : ~isnull(r.v[c])
Survivors == SelectSeq(Loaded.rows, Survives)

Labels(rows) == [i \in 1..Len(rows) |-> rows[i].idx]

\* C1: the table the cleaning cell produces has no missing essential field,
\* and its rows are exactly the January rows of the input that had all five
\* essential fields, in input order and with their essential values.
C1_CleanedEssentials ==
  pc = "feature" =>
    LET out == heap[flights]
    IN  /\ \A i \in 1..Len(out.rows) : \A c \in essential :
             ~isnull(out.rows[i].v[c])
        /\ Labels(out.rows) = Labels(Survivors)
        /\ \A i \in 1..Len(out.rows) : \A c \in essential :
             out.rows[i].v[c] = LoadedRow(out.rows[i].idx).v[c]

\* C1 witness: three January rows of which only the second lacks its origin;
\* the cleaned table holds rows 0 and 2.
C1_Witness ==
  /\ pc = "feature"
  /\ Len(Loaded.rows) = 3
  /\ \A i \in 1..3 : Loaded.rows[i].v["MONTH"] = Num(1)
  /\ \A i \in 1..3 : ~isnull(Loaded.rows[i].v["DEPARTURE_DELAY"])
  /\ isnull(Loaded.rows[2].v["ORIGIN_AIRPORT"])
  /\ ~isnull(Loaded.rows[1].v["ORIGIN_AIRPORT"])
  /\ ~isnull(Loaded.rows[3].v["ORIGIN_AIRPORT"])
  /\ Labels(heap[flights].rows) = <<0, 2>>

\* C2: after the cleaning cell no numeric column of the table has a missing
\* value.
C2_NoNumericNulls ==
  pc = "feature" =>
    LET out == heap[flights]
    IN  \A c \in NumericCols(out) : \A i \in 1..Len(out.rows) :
          ~isnull(out.rows[i].v[c])

IntegrityKeepsTable == pc = "integrity" => heap'[flights'] = heap[flights]

\* C3: the integrity cell leaves the table bound to `flights` as it was.
C3_IntegrityReadOnly == [][IntegrityKeepsTable]_vars

\* C4: the cleaned table has every column the feature cell reads, and after
\* the feature cell every row has a weekend flag that is true iff its
\* year/month/day date is a Saturday or a Sunday.
C4_WeekendFlag ==
  /\ pc = "feature" => FeatureReads \subseteq Cols(heap[flights])
  /\ pc \in {"integrity", "done"} =>
       LET t == heap[flights]
       IN  /\ "IS_WEEKEND" \in Cols(t)
           /\ \A i \in 1..Len(t.rows) :
                t.rows[i].v["IS_WEEKEND"] =
                  Bool(is_weekend(to_datetime(LoadedRow(t.rows[i].idx))))

StageKeepsInput ==
  pc \in {"clean", "feature"} =>
    /\ heap'[flights] = heap[flights]
    /\ flights' # flights

\* C9: the cleaning cell and the feature cell leave the table they were given
\* as it was and bind `flights` to a new table.
C9_StagesKeepInput == [][StageKeepsInput]_vars

\* C10: every value the cleaning cell fills in is the median of the column's
\* non-missing values over the rows that survive the scope filter and the
\* essential-field drop; values present in the input are kept.
C10_MedianOverSurvivors ==
  pc = "feature" =>
    LET out == heap[flights]
    IN  \A c \in NumericCols(out) :
          LET m == median([i \in 1..Len(Survivors) |-> Survivors[i].v[c]])
          IN  \A i \in 1..Len(out.rows) :
                out.rows[i].v[c] = fillna(LoadedRow(out.rows[i].idx).v[c], m)

\* C10 witness: a value was filled in, and a January row that the essential
\* drop removed carries a different DISTANCE.
C10_Witness ==
  /\ pc = "feature"
  /\ \E i \in 1..Len(heap[flights].rows) :
       /\ isnull(LoadedRow(heap[flights].rows[i].idx).v["DISTANCE"])
       /\ ~isnull(heap[flights].rows[i].v["DISTANCE"])
       /\ \E j \in 1..Len(Loaded.rows) :
            /\ Loaded.rows[j].v["MONTH"] = Num(1)
            /\ ~Survives(Loaded.rows[j])
            /\ ~isnull(Loaded.rows[j].v["DISTANCE"])
            /\ Loaded.rows[j].v["DISTANCE"] # heap[flights].rows[i].v["DISTANCE"]

(***************************************************************************)
(* Section 7: the delay level.                                             *)
(***************************************************************************)
\* tuple[b] with a Python bool as index: False is 0, True is 1
Index(tuple, b) == tuple[IF b THEN 2 ELSE 1]

\* the delay level with the lower threshold tested by >=
delay_type_ge(x) == Index(<<Index(<<0, 1>>, ~Lt(x, Num(5))), 2>>, Lt(Num(45), x))

\* delay_type = lambda x:((0,1)[x > 5],2)[x > 45]
delay_type(x) == Index(<<Index(<<0, 1>>, Lt(Num(5), x)), 2>>, Lt(Num(45), x))

(***************************************************************************)
(* SpecFn: one helper applied to one argument.                             *)
(***************************************************************************)
Float(n, d) == [num |-> n, den |-> d, str |-> ""]

InitFn ==
  /\ arg \in (0 - MinArg)..MaxArg
  /\ den \in {1, 100}
  /\ fn = "none"
  /\ res = Return(0)
  /\ heap = <<>>
  /\ flights = 0
  /\ pc = "idle"
  /\ raised = {}
  /\ printed = <<>>
  /\ delays = [d |-> 0, m |-> 1, cells |-> <<>>]
  /\ capped = [d |-> 0, m |-> 1, cells |-> <<>>]
  /\ kind = "none"
  /\ cpc = "idle"

CallSchedHour ==
  /\ fn = "none"
  /\ res' = sched_hour(Float(arg, den))
  /\ fn' = "sched_hour"
  /\ UNCHANGED <<heap, flights, pc, raised, printed, arg, den,
                 delays, capped, kind, cpc>>

CallDelayType ==
  /\ fn = "none"
  /\ res' = Return(delay_type(Float(arg, den)))
  /\ fn' = "delay_type"
  /\ UNCHANGED <<heap, flights, pc, raised, printed, arg, den,
                 delays, capped, kind, cpc>>

NextFn == CallSchedHour \/ CallDelayType

SpecFn == InitFn /\ [][NextFn]_vars

(***************************************************************************)
(* Properties of SpecFn.                                                   *)
(***************************************************************************)
\* the first two digits of a number of at least two digits
RECURSIVE LeadingTwo(_)
LeadingTwo(n) == IF n < 100 THEN n ELSE LeadingTwo(n \div 10)

\* the hour an HHMM integer stands for: its first two digits once padded to
\* four
PaddedHour(n) == IF n < 10000 THEN n \div 100 ELSE LeadingTwo(n)

\* C5: on a non-negative integer, sched_hour returns the first two digits of
\* the value padded to four when they are an hour in 0..23, and raises
\* ValueError otherwise; it never returns an hour outside 0..23.
C5_SchedHourValidated ==
  (fn = "sched_hour" /\ den = 1 /\ arg >= 0) =>
    /\ PaddedHour(arg) \in 0..23 => res = Return(PaddedHour(arg))
    /\ PaddedHour(arg) \notin 0..23 => res = Raise("ValueError")
    /\ res.exc = "" => res.val \in 0..23

\* C6: delay_type returns 0 iff the delay is <= 5, 1 iff it is > 5 and <= 45,
\* 2 iff it is > 45, for every delay, the negative ones included.
C6_DelayTypeLevels ==
  fn = "delay_type" =>
    /\ res.exc = ""
    /\ res.val \in {0, 1, 2}
    /\ res.val = 0 <=> arg <= 5 * den
    /\ res.val = 1 <=> (5 * den < arg /\ arg <= 45 * den)
    /\ res.val = 2 <=> 45 * den < arg

\* C6 witness: 45.00 is level 1, the upper boundary belonging to the lower
\* level.
C6_Witness == fn = "delay_type" /\ den = 100 /\ arg = 4500 /\ res.val = 1

(***************************************************************************)
(* Section 12: the outlier cap.                                            *)
(*                                                                         *)
(* mean + 3*std is irrational in general, so a column is kept exactly: a   *)
(* column is [d, m, cells] and the cell [a, b] stands for the real number  *)
(* (a + b*sqrt(d)) / m.  A column of integers has d = 0 and m = 1.  The    *)
(* comparisons below are the comparisons of those reals.                   *)
(***************************************************************************)
Cell(a, b) == [a |-> a, b |-> b, cap |-> FALSE]

\* a cell holding the mean + 3*std of a column whose values are not all
\* integers; that cap is not of the form (a + b*sqrt(d)) / m
CapMark == [a |-> 0, b |-> 0, cap |-> TRUE]

RawColumn(xs) ==
  [d |-> 0, m |-> 1, cells |-> [i \in 1..Len(xs) |-> Cell(xs[i], 0)]]

\* the same integers written over the denominator m in the field of sqrt(d)
Lift(xs, d, m) ==
  [d |-> d, m |-> m, cells |-> [i \in 1..Len(xs) |-> Cell(xs[i] * m, 0)]]

RECURSIVE Sum(_)
Sum(s) == IF s = <<>> THEN 0 ELSE Head(s) + Sum(Tail(s))

\* the sign of A + B*sqrt(d), d >= 0
Sign(A, B, d) ==
  LET B2d == B * B * d
      A2 == A * A
  IN  IF A >= 0 /\ B >= 0 THEN (IF A > 0 \/ B2d > 0 THEN 1 ELSE 0)
      ELSE IF A <= 0 /\ B <= 0 THEN (IF A < 0 \/ B2d > 0 THEN -1 ELSE 0)
      ELSE IF A > 0 THEN (IF A2 > B2d THEN 1 ELSE IF A2 < B2d THEN -1 ELSE 0)
      ELSE (IF B2d > A2 THEN 1 ELSE IF B2d < A2 THEN -1 ELSE 0)

\* y - Series.mean(), times m*n: the pair [p, q] stands for p + q*sqrt(d)
Dev(col, y) ==
  LET n == Len(col.cells)
  IN  [p |-> n * y.a - Sum([i \in 1..n |-> col.cells[i].a]),
       q |-> n * y.b - Sum([i \in 1..n |-> col.cells[i].b])]

\* the sum of squared deviations from the mean, times (m*n)^2
SumSq(col) ==
  LET n == Len(col.cells)
      dv == [i \in 1..n |-> Dev(col, col.cells[i])]
  IN  [p |-> Sum([i \in 1..n |-> dv[i].p * dv[i].p + dv[i].q * dv[i].q * col.d]),
       q |-> Sum([i \in 1..n |-> 2 * dv[i].p * dv[i].q])]

\* the sign of y - (mean + 3*std) for the standard deviation with divisor
\* div; the caller makes sure div > 0
CmpCap(col, y, div) ==
  LET dv == Dev(col, y)
      ss == SumSq(col)
      sq == Sign(div * (dv.p * dv.p + dv.q * dv.q * col.d) - 9 * ss.p,
                 div * 2 * dv.p * dv.q - 9 * ss.q, col.d)
  IN  IF Sign(dv.p, dv.q, col.d) < 0 THEN -1 ELSE sq

\* y > mean + 3*std; when the divisor is 0 or less the cap is NaN and the
\* comparison is False
GtCap(col, y, div) == div > 0 /\ CmpCap(col, y, div) > 0

\* the population standard deviation's divisor
std_divisor_population(n) == n

\* Series.std() divides by n - ddof, and pandas' default ddof is 1
std_divisor(n) == n - 1

\* delay_cap = flights['DEPARTURE_DELAY'].mean() + 3*flights['DEPARTURE_DELAY'].std()
\* of an integer column xs, as the cell [a, b] over the denominator capM in
\* the field of sqrt(capD)
capD(xs) == SumSq(RawColumn(xs)).p * std_divisor(Len(xs))
capM(xs) == Len(xs) * std_divisor(Len(xs))
delay_cap(xs) == Cell(std_divisor(Len(xs)) * Sum(xs), 3)

\* np.where(cond, x, y), one row
where(cond, x, y) == IF cond THEN x ELSE y

\* flights['DEPARTURE_DELAY_CAPPED'] =
\*   np.where(flights['DEPARTURE_DELAY'] > delay_cap, delay_cap, flights['DEPARTURE_DELAY'])
\* with fewer than two rows the cap is NaN and every row keeps its delay
DEPARTURE_DELAY_CAPPED(xs) ==
  IF std_divisor(Len(xs)) <= 0 THEN RawColumn(xs)
  ELSE LET col == Lift(xs, capD(xs), capM(xs))
           div == std_divisor(Len(xs))
       IN  [col EXCEPT !.cells =
              [i \in 1..Len(xs) |->
                 where(GtCap(col, col.cells[i], div), delay_cap(xs), col.cells[i])]]

\* the two lines with the comparison turned round (<), which raises the
\* low rows to the cap instead of lowering the high ones
Recapped_floor(col) ==
  [i \in 1..Len(col.cells) |->
     where(std_divisor(Len(col.cells)) > 0
             /\ CmpCap(col, col.cells[i], std_divisor(Len(col.cells))) < 0,
           CapMark, col.cells[i])]

\* np.where(column > delay_cap, delay_cap, column) for a column whose values
\* are not all integers: delay_cap is that column's own mean + 3*std, written
\* CapMark
Recapped(col) ==
  [i \in 1..Len(col.cells) |->
     where(GtCap(col, col.cells[i], std_divisor(Len(col.cells))),
           CapMark, col.cells[i])]

\* the column holds integers, written as themselves
IsRaw(col) == col.d = 0 /\ col.m = 1

Ints(col) == [i \in 1..Len(col.cells) |-> col.cells[i].a]

\* the two lines on the flights table: they read flights['DEPARTURE_DELAY']
\* and assign flights['DEPARTURE_DELAY_CAPPED']; DEPARTURE_DELAY is not
\* assigned
CappingCell(t) ==
  LET col == t.DEPARTURE_DELAY
  IN  [t EXCEPT !.DEPARTURE_DELAY_CAPPED =
         IF IsRaw(col) THEN DEPARTURE_DELAY_CAPPED(Ints(col))
         ELSE [col EXCEPT !.cells = Recapped(col)]]

(***************************************************************************)
(* SpecCap: the outlier cell run on a table's delay column, and run again  *)
(* as a kernel allows.  DEPARTURE_DELAY is a float column of flights.csv:  *)
(* it holds either integer delays (kind "raw") or the values that capping  *)
(* an integer column gives (kind "capped"), so that the cell is also seen  *)
(* on a column that is already capped.  The cap compares each row with     *)
(* statistics of the whole column, so the order of the rows does not       *)
(* matter: columns are taken in ascending order.                           *)
(***************************************************************************)
DelayVals == {0, 1, 2}

Repeat(x, k) == [i \in 1..k |-> x]

DelayColumns ==
  { Repeat(0, c[0]) \o Repeat(1, c[1]) \o Repeat(2, c[2]) :
      c \in { f \in [DelayVals -> 0..MaxCapRows] :
                f[0] + f[1] + f[2] <= MaxCapRows } }

InitCap ==
  /\ \E xs \in DelayColumns :
       \/ kind = "raw" /\ delays = RawColumn(xs)
       \/ kind = "capped" /\ delays = DEPARTURE_DELAY_CAPPED(xs)
  /\ capped = [d |-> 0, m |-> 1, cells |-> <<>>]
  /\ cpc = "raw"
  /\ heap = <<>>
  /\ flights = 0
  /\ pc = "idle"
  /\ raised = {}
  /\ printed = <<>>
  /\ arg = 0
  /\ den = 1
  /\ fn = "none"
  /\ res = Return(0)

\* one run of the outlier cell, the first or the second
CellCap ==
  /\ cpc \in {"raw", "once"}
  /\ LET t == CappingCell([DEPARTURE_DELAY |-> delays,
                           DEPARTURE_DELAY_CAPPED |-> capped])
     IN  /\ delays' = t.DEPARTURE_DELAY
         /\ capped' = t.DEPARTURE_DELAY_CAPPED
  /\ cpc' = IF cpc = "raw" THEN "once" ELSE "twice"
  /\ UNCHANGED <<heap, flights, pc, raised, printed, arg, den, fn, res, kind>>

NextCap == CellCap

SpecCap == InitCap /\ [][NextCap]_vars

(***************************************************************************)
(* Properties of SpecCap.                                                  *)
(***************************************************************************)
\* x <= y for two cells of a column
LeCell(col, x, y) == Sign(y.a - x.a, y.b - x.b, col.d) >= 0

\* integer delays written in the field of the capped column
RawLifted == Lift(Ints(delays), capped.d, capped.m)

\* capped[i] = min(delays[i], mean + 3*std) for the divisor div, with what
\* follows from it: capped <= raw, and capped never above the cap
IsMinWithCap(i, div) ==
  LET raw == RawLifted
  IN  /\ LeCell(capped, capped.cells[i], raw.cells[i])
      /\ IF CmpCap(raw, raw.cells[i], div) > 0
         THEN CmpCap(raw, capped.cells[i], div) = 0
         ELSE capped.cells[i] = raw.cells[i]
      /\ CmpCap(raw, capped.cells[i], div) <= 0

\* C7 as stated: with sigma the population standard deviation (divisor n),
\* every row of the capped column is min(delay, mu + 3*sigma).
C7_MinWithPopulationCap ==
  (kind = "raw" /\ cpc \in {"once", "twice"}) =>
    /\ Len(capped.cells) = Len(delays.cells)
    /\ \A i \in 1..Len(delays.cells) : IsMinWithCap(i, Len(delays.cells))

\* C7 amended: with s the sample standard deviation (divisor n - 1), every
\* row of the capped column is min(delay, mu + 3*s) when the table has at
\* least two rows, and is the delay itself when it has fewer.
C7_MinWithSampleCap ==
  (kind = "raw" /\ cpc \in {"once", "twice"}) =>
    /\ Len(capped.cells) = Len(delays.cells)
    /\ \A i \in 1..Len(delays.cells) :
         IF Len(delays.cells) >= 2 THEN IsMinWithCap(i, Len(delays.cells) - 1)
         ELSE capped.cells[i] = RawLifted.cells[i]

\* C7 witness: a column with a row that was capped and a row that was not.
C7_Witness ==
  /\ kind = "raw"
  /\ cpc = "once"
  /\ \E i \in 1..Len(delays.cells) : capped.cells[i] # RawLifted.cells[i]
  /\ \E i \in 1..Len(delays.cells) : capped.cells[i] = RawLifted.cells[i]

\* In a table of kind "capped" the DEPARTURE_DELAY column is the result of
\* capping once and the DEPARTURE_DELAY_CAPPED column, once the cell has run,
\* the result of capping twice, with mean and std taken from the
\* already-capped column.  A CapMark in row i stands for that column's
\* mean + 3*std, which the cell wrote because row i was above it.

\* twice-capped[i] <= once-capped[i]
RecapLe(i) ==
  IF capped.cells[i].cap
  THEN CmpCap(delays, delays.cells[i], Len(delays.cells) - 1) >= 0
  ELSE LeCell(delays, capped.cells[i], delays.cells[i])

\* twice-capped[i] >= once-capped[i]
RecapGe(i) ==
  IF capped.cells[i].cap
  THEN CmpCap(delays, delays.cells[i], Len(delays.cells) - 1) <= 0
  ELSE LeCell(delays, delays.cells[i], capped.cells[i])

\* C8 as stated: capping an already-capped column, with mu and sigma taken
\* from that column, gives in every row a value >= the once-capped value.
C8_RecapNotBelow ==
  (kind = "capped" /\ cpc \in {"once", "twice"}) =>
    \A i \in 1..Len(delays.cells) : RecapGe(i)

\* C8 amended: capping an already-capped column, with mu and sigma taken
\* from that column, gives in every row a value <= the once-capped value.
C8_RecapNotAbove ==
  (kind = "capped" /\ cpc \in {"once", "twice"}) =>
    /\ Len(capped.cells) = Len(delays.cells)
    /\ \A i \in 1..Len(delays.cells) : RecapLe(i)

\* C8 witness: a row that the first capping lowered to mu + 3*s of the
\* integer delays (a value with a square-root part) is lowered again by the
\* second capping.
C8_Witness ==
  /\ kind = "capped"
  /\ cpc = "once"
  /\ \E i \in 1..Len(delays.cells) :
       /\ delays.cells[i].b # 0
       /\ capped.cells[i].cap
       /\ ~RecapGe(i)

====
